---- MODULE Spec2Model ----
(***************************************************************************)
(* Model of the food-diary client: the Analyzer component                  *)
(* (src/components/Analyzer.tsx) with its aggregation helper               *)
(* calculateTotals, its event handlers and the continuations of its        *)
(* asynchronous file reads and gateway calls.                              *)
(*                                                                         *)
(* React state (useState) and refs (useRef) are the variables.  Every      *)
(* event handler and every continuation after an await runs to completion  *)
(* on the single event-loop thread, so each is one atomic action.          *)
(* The string literals of the source are Chinese; they are written here    *)
(* as ASCII transliterations, one distinct string per distinct literal.    *)
(***************************************************************************)
EXTENDS Integers, Sequences, FiniteSets, TLC

(* ---------------------------------------------------------------------- *)
(* Bounds of the exploration                                               *)
(* ---------------------------------------------------------------------- *)

\* meals recorded plus analysis requests in flight
MaxMeals == 2

\* largest reading of the clock (Date.now())
MaxClock == 1

\* longest meal list handed to calculateTotals on its own
MaxList == 3

\* longest chat transcript
MaxTranscript == 4

(* ---------------------------------------------------------------------- *)
(* Types (src/types.ts)                                                    *)
(* ---------------------------------------------------------------------- *)

\* null where a string is expected
NULL == "null"

\* null where an object is expected
NullObject == [null |-> TRUE]

\* enum MealType: MORNING, NOON, EVENING
MealType == {"MORNING", "NOON", "EVENING"}

\* the data URL FileReader produces for the picked file (reader.result)
DataUrl == "data:image/jpeg;base64,AAAA"

\* NutritionData records the gateway can answer an image analysis with
AnalysisResults ==
  { [calories |-> 500, protein |-> 20, carbs |-> 60, fat |-> 15,
     foodItems |-> <<"rice", "egg">>, healthScore |-> 80, summary |-> "ok"],
    [calories |-> 700, protein |-> 30, carbs |-> 80, fat |-> 25,
     foodItems |-> <<"rice", "rice">>, healthScore |-> 60, summary |-> "ok"] }

\* DailyReport records the gateway can answer a report request with
ReportResults ==
  { [title |-> "title", shortSummary |-> "short", detailedAdvice |-> "advice"] }

\* literal at Analyzer.tsx:17 ("today's overview")
SummaryPlaceholder == "JinRiZongLan"

\* literal at Analyzer.tsx:78 ("analysis failed, please retry")
AnalysisFailedMsg == "FenXiShiBai"

\* literal at Analyzer.tsx:104 ("generating advice failed, please retry")
ReportFailedMsg == "ShengChengJianYiShiBai"

(* ---------------------------------------------------------------------- *)
(* calculateTotals (Analyzer.tsx:9-27)                                     *)
(* ---------------------------------------------------------------------- *)

\* Math.round(num / den) for num >= 0, den > 0: halves round up
MathRound(num, den) == (2 * num + den) \div (2 * den)

\* the initial accumulator handed to reduce (lines 18-26)
InitialAcc ==
  [calories |-> 0, protein |-> 0, carbs |-> 0, fat |-> 0,
   foodItems |-> <<>>, healthScore |-> 0, summary |-> ""]

ReducerDropsAcc(acc, meal, n) ==
  [calories |-> meal.calories,
   protein |-> meal.protein,
   carbs |-> meal.carbs,
   fat |-> meal.fat,
   foodItems |-> acc.foodItems \o meal.foodItems,
   healthScore |-> MathRound(acc.healthScore * n + meal.healthScore, n + 1),
   summary |-> SummaryPlaceholder]

ReducerSumsScore(acc, meal, n) ==
  [calories |-> acc.calories + meal.calories,
   protein |-> acc.protein + meal.protein,
   carbs |-> acc.carbs + meal.carbs,
   fat |-> acc.fat + meal.fat,
   foodItems |-> acc.foodItems \o meal.foodItems,
   healthScore |-> acc.healthScore + meal.healthScore,
   summary |-> SummaryPlaceholder]

\* the reduce callback (lines 10-18); n is meals.length of the whole list
Reducer(acc, meal, n) ==
  [calories |-> acc.calories + meal.calories,
   protein |-> acc.protein + meal.protein,
   carbs |-> acc.carbs + meal.carbs,
   fat |-> acc.fat + meal.fat,
   foodItems |-> acc.foodItems \o meal.foodItems,
   healthScore |-> MathRound(acc.healthScore * n + meal.healthScore, n + 1),
   summary |-> SummaryPlaceholder]

RECURSIVE Reduce(_, _, _)
\* Array.prototype.reduce, left to right
Reduce(list, acc, n) ==
  IF list = <<>> THEN acc
  ELSE Reduce(Tail(list), Reducer(acc, Head(list), n), n)

calculateTotals(list) == Reduce(list, InitialAcc, Len(list))

(* ---------------------------------------------------------------------- *)
(* The gateway (src/services/geminiService.ts).  The file holds five       *)
(* revisions of the module one after the other; revision 5 (lines 532-678) *)
(* is the latest.  A message is the sequence of its words, so that         *)
(* String.prototype.includes and toLowerCase can be computed.              *)
(* ---------------------------------------------------------------------- *)

Revisions == 1..5

LatestRevision == 5

\* response.text when the answer carries no text
Undefined == "undefined"

\* values of process.env.API_KEY: absent, empty, blank, usable
ApiKeys == {Undefined, "", " ", "k1"}

\* String.prototype.trim on the key values
Trim(str) == IF str = " " THEN "" ELSE str

\* !value for a string or undefined
Falsy(value) == value = Undefined \/ value = ""

\* message of the Error thrown by getAi (line 543)
MissingKeyMsg ==
  <<"API", "Key", "is", "missing", ".", "Please", "select", "an", "API",
    "Key", "via", "the", "Connect", "button", ".">>

\* messages with which generateContent can reject
ServiceErrors ==
  { <<"API", "key", "not", "valid", ".">>,
    <<"got", "status", ":", "403", "Forbidden">>,
    <<"Requested", "entity", "was", "not", "found", ".">>,
    <<"API_KEY", "is", "not", "set">>,
    <<"Failed", "to", "fetch">>,
    <<>> }

\* message of the SyntaxError thrown by JSON.parse
SyntaxErrorMsg == <<"Unexpected", "token">>

\* texts the service can answer with
NutritionText == "{calories,protein,carbs,fat,foodItems,healthScore,summary}"

PartialText == "{calories,protein,carbs,fat,foodItems,summary}"

ReportText == "{title,shortSummary,detailedAdvice}"

EmptyObjectText == "{}"

GarbageText == "Sorry, I cannot help with that"

ResponseTexts ==
  {Undefined, "", GarbageText, EmptyObjectText, NutritionText, PartialText,
   ReportText}

\* what generateContent settles with: a response with a text, or an error
ServiceReplies ==
  [kind : {"response"}, text : ResponseTexts, message : {<<>>}]
    \cup [kind : {"error"}, text : {Undefined}, message : ServiceErrors]

\* the reply that stands for getAi throwing before any call is made
GetAiError == [kind |-> "error", text |-> Undefined, message |-> MissingKeyMsg]

\* the texts JSON.parse accepts
IsJson(text) ==
  text \in {EmptyObjectText, NutritionText, PartialText, ReportText}

\* JSON.parse of an accepted text
JSONparse(text) ==
  CASE text = NutritionText ->
         [calories |-> 500, protein |-> 20, carbs |-> 60, fat |-> 15,
          foodItems |-> <<"rice", "egg">>, healthScore |-> 80,
          summary |-> "ok"]
    [] text = PartialText ->
         [calories |-> 500, protein |-> 20, carbs |-> 60, fat |-> 15,
          foodItems |-> <<"rice", "egg">>, summary |-> "ok"]
    [] text = ReportText ->
         [title |-> "title", shortSummary |-> "short",
          detailedAdvice |-> "advice"]
    [] OTHER -> [x \in {} |-> x]

\* String.prototype.includes on messages
Includes(msg, pattern) ==
  \E i \in 0..(Len(msg) - Len(pattern)) :
    SubSeq(msg, i + 1, i + Len(pattern)) = pattern

LowerWord(w) ==
  CASE w = "API" -> "api"
    [] w = "Key" -> "key"
    [] w = "API_KEY" -> "api_key"
    [] OTHER -> w

\* String.prototype.toLowerCase on messages
ToLowerCase(msg) == [i \in 1..Len(msg) |-> LowerWord(msg[i])]

Returned(v) == [kind |-> "returned", value |-> v]

Threw(msg) == [kind |-> "threw", value |-> msg]

\* error.message || fallback
MessageOr(msg, fallback) == IF msg = <<>> THEN fallback ELSE msg

\* getAi (lines 540-546) throws
KeyMissing(key) == key = Undefined \/ Trim(key) = ""

\* Revision 5 reads the key before any call; revisions 1 to 4 build the
\* client with whatever the environment holds and issue the call.
GetAiThrows(r, key) == r = 5 /\ KeyMissing(key)

\* the try block shared by analyzeFoodImage and generateDailyReport:
\*   const resultText = response.text;
\*   if (!resultText) throw new Error(emptyMsg);
\*   return JSON.parse(resultText)
ParseReply(reply, emptyMsg) ==
  IF reply.kind = "error" THEN Threw(reply.message)
  ELSE IF Falsy(reply.text) THEN Threw(emptyMsg)
  ELSE IF ~IsJson(reply.text) THEN Threw(SyntaxErrorMsg)
  ELSE Returned(JSONparse(reply.text))

\* throw new Error(error.message || fallback)
Rewrap(out, fallback) ==
  IF out.kind = "threw" THEN Threw(MessageOr(out.value, fallback)) ELSE out

\* literals of revision 5
NoAnalysisDataMsg == <<"AI-WeiFanHuiRenHeFenXiShuJu">>

InvalidKeyMsg == <<"API-Key-WuXiaoHuoWeiQiYongJiFei">>

ModelFailedMsg == <<"MoXingDiaoYongShiBai-ChongXinXuanZeYouXiaoDe-API-Key">>

AnalysisErrorMsg == <<"FenXiGuoChengZhongFaShengCuoWu">>

NoReportMsg == <<"WuFaShengChengBaoGao">>

ReportErrorMsg == <<"JianBaoShengChengShiBai">>

ChatFallback == <<"BaoQian-WuFaHuoQuHuiDa">>

ChatErrorPrefix == <<"DuiHuaCuoWu:">>

analyzeCatch5InvalidFirst(msg) ==
  IF Includes(ToLowerCase(msg), <<"api", "key">>)
       \/ Includes(msg, <<"403">>) \/ Includes(msg, <<"401">>)
    THEN Threw(InvalidKeyMsg)
  ELSE IF Includes(msg, <<"API", "Key", "is", "missing">>) THEN Threw(msg)
  ELSE IF Includes(msg, <<"entity", "was", "not", "found">>)
    THEN Threw(ModelFailedMsg)
  ELSE Threw(MessageOr(msg, AnalysisErrorMsg))

\* the catch block of analyzeFoodImage, revision 5 (lines 609-621)
analyzeCatch5(msg) ==
  IF Includes(msg, <<"API", "Key", "is", "missing">>) THEN Threw(msg)
  ELSE IF Includes(ToLowerCase(msg), <<"api", "key">>)
            \/ Includes(msg, <<"403">>) \/ Includes(msg, <<"401">>)
    THEN Threw(InvalidKeyMsg)
  ELSE IF Includes(msg, <<"entity", "was", "not", "found">>)
    THEN Threw(ModelFailedMsg)
  ELSE Threw(MessageOr(msg, AnalysisErrorMsg))

\* analyzeFoodImage, revision 5 (lines 581-622)
analyzeFoodImage5(reply) ==
  LET out == ParseReply(reply, NoAnalysisDataMsg)
  IN IF out.kind = "threw" THEN analyzeCatch5(out.value) ELSE out

\* generateDailyReport, revision 5 (lines 627-654)
generateDailyReport5(reply) ==
  Rewrap(ParseReply(reply, NoReportMsg), ReportErrorMsg)

\* the try block of sendChatMessage: return response.text || fallback
ChatReply(reply, fallback) ==
  IF reply.kind = "error" THEN Threw(reply.message)
  ELSE IF Falsy(reply.text) THEN Returned(fallback)
  ELSE Returned(<<reply.text>>)

sendChatMessage5NoFallback(reply) ==
  IF reply.kind = "error" THEN Returned(ChatErrorPrefix \o reply.message)
  ELSE IF Falsy(reply.text) THEN Returned(<<>>)
  ELSE Returned(<<reply.text>>)

\* sendChatMessage, revision 5 (lines 659-678)
sendChatMessage5(reply) ==
  LET out == ChatReply(reply, ChatFallback)
  IN IF out.kind = "threw" THEN Returned(ChatErrorPrefix \o out.value)
     ELSE out

(* Revisions 1 to 4 of the three operations *)

\* literals of revision 1
EmptyContentMsg1 == <<"API-FanHuiNeiRongWeiKong">>

UnknownAnalysisMsg1 == <<"WeiZhiFenXiCuoWu">>

NoBriefContentMsg1 == <<"WuFaShengChengJianBaoNeiRong">>

NoDailyBriefMsg1 == <<"WuFaShengChengMeiRiJianBao">>

ChatFallback1 == <<"BaoQian-WoZanShiWuFaHuiDa">>

ChatErrorPrefix1 == <<"DuiHuaChuCuo:">>

\* literals of revision 2
ModelFailedMsg2 == <<"MoXingDiaoYongShiBai-ChongXinXuanZe-API-Key">>

\* literals of revision 3
NoResponseMsg3 == <<"No", "response", "from", "AI">>

ChatFailedMsg3 == <<"BaoQian-FaShengLeYiXieCuoWu">>

\* literals of revision 4
NotRecognisedMsg4 == <<"AI-WeiNengShiBieTuPianNeiRong">>

KeyNotConfiguredMsg4 == <<"JianCeDao-API-Key-WeiPeiZhi">>

ReportFailedMsg4 == <<"ShengChengBaoGaoShiBai-JianChaWangLuoHuo-API-PeiZhi">>

\* analyzeFoodImage, revision 1 (lines 46-78)
analyzeFoodImage1(reply) ==
  Rewrap(ParseReply(reply, EmptyContentMsg1), UnknownAnalysisMsg1)

\* generateDailyReport, revision 1 (lines 80-111)
generateDailyReport1(reply) ==
  Rewrap(ParseReply(reply, NoBriefContentMsg1), NoDailyBriefMsg1)

\* sendChatMessage, revision 1 (lines 113-133)
sendChatMessage1(reply) ==
  LET out == ChatReply(reply, ChatFallback1)
  IN IF out.kind = "threw" THEN Returned(ChatErrorPrefix1 \o out.value)
     ELSE out

\* analyzeFoodImage, revision 2 (lines 169-204)
analyzeFoodImage2(reply) ==
  LET out == ParseReply(reply, NoAnalysisDataMsg)
  IN IF out.kind = "returned" THEN out
     ELSE IF Includes(out.value, <<"entity", "was", "not", "found">>)
       THEN Threw(ModelFailedMsg2)
     ELSE Threw(MessageOr(out.value, AnalysisErrorMsg))

\* generateDailyReport, revision 2 (lines 206-233)
generateDailyReport2(reply) ==
  Rewrap(ParseReply(reply, NoReportMsg), ReportErrorMsg)

\* sendChatMessage, revision 2 (lines 235-254)
sendChatMessage2(reply) ==
  LET out == ChatReply(reply, ChatFallback)
  IN IF out.kind = "threw" THEN Returned(ChatErrorPrefix \o out.value)
     ELSE out

\* analyzeFoodImage, revision 3 (lines 302-342): the catch rethrows
analyzeFoodImage3(reply) == ParseReply(reply, NoResponseMsg3)

\* generateDailyReport, revision 3 (lines 344-382): the catch rethrows
generateDailyReport3(reply) == ParseReply(reply, NoResponseMsg3)

\* sendChatMessage, revision 3 (lines 384-408)
sendChatMessage3(reply) ==
  LET out == ChatReply(reply, ChatFallback1)
  IN IF out.kind = "threw" THEN Returned(ChatFailedMsg3) ELSE out

\* analyzeFoodImage, revision 4 (lines 447-483)
analyzeFoodImage4(reply) ==
  LET out == ParseReply(reply, NotRecognisedMsg4)
  IN IF out.kind = "returned" THEN out
     ELSE IF Includes(out.value, <<"API_KEY">>)
       THEN Threw(KeyNotConfiguredMsg4)
     ELSE out

\* generateDailyReport, revision 4 (lines 488-505):
\*   return JSON.parse(response.text || '{}')
generateDailyReport4(reply) ==
  IF reply.kind = "error" THEN Threw(ReportFailedMsg4)
  ELSE LET text == IF Falsy(reply.text) THEN EmptyObjectText
                   ELSE reply.text
       IN IF IsJson(text) THEN Returned(JSONparse(text))
          ELSE Threw(ReportFailedMsg4)

\* sendChatMessage, revision 4 (lines 510-529)
sendChatMessage4(reply) ==
  LET out == ChatReply(reply, ChatFallback1)
  IN IF out.kind = "threw" THEN Returned(ChatErrorPrefix1 \o out.value)
     ELSE out

\* the exported operations of revision r
analyzeFoodImage(r, reply) ==
  CASE r = 1 -> analyzeFoodImage1(reply)
    [] r = 2 -> analyzeFoodImage2(reply)
    [] r = 3 -> analyzeFoodImage3(reply)
    [] r = 4 -> analyzeFoodImage4(reply)
    [] r = 5 -> analyzeFoodImage5(reply)

generateDailyReport(r, reply) ==
  CASE r = 1 -> generateDailyReport1(reply)
    [] r = 2 -> generateDailyReport2(reply)
    [] r = 3 -> generateDailyReport3(reply)
    [] r = 4 -> generateDailyReport4(reply)
    [] r = 5 -> generateDailyReport5(reply)

sendChatMessage(r, reply) ==
  CASE r = 1 -> sendChatMessage1(reply)
    [] r = 2 -> sendChatMessage2(reply)
    [] r = 3 -> sendChatMessage3(reply)
    [] r = 4 -> sendChatMessage4(reply)
    [] r = 5 -> sendChatMessage5(reply)

Operations == {"analyzeFoodImage", "generateDailyReport", "sendChatMessage"}

\* what operation op of revision r settles with
Settle(r, op, reply) ==
  CASE op = "analyzeFoodImage" -> analyzeFoodImage(r, reply)
    [] op = "generateDailyReport" -> generateDailyReport(r, reply)
    [] op = "sendChatMessage" -> sendChatMessage(r, reply)

(* ---------------------------------------------------------------------- *)
(* State of the Analyzer component                                         *)
(* ---------------------------------------------------------------------- *)

VARIABLES
  meals,          \* useState<Meal[]>               (line 30)
  loadingSlot,    \* useState<MealType | null>      (line 31)
  error,          \* useState<string | null>        (line 32)
  dailyReport,    \* useState<DailyReport | null>   (line 35)
  reportLoading,  \* useState(false)                (line 36)
  activeSlotRef,  \* useRef<MealType | null>        (line 41)
  picking,        \* the file dialog opened by fileInputRef.current.click()
  reading,        \* per slot: FileReader reads started and not yet ended
  analyzing,      \* per slot: analyzeFoodImage calls awaiting their answer
  reportReq,      \* the totals of the generateDailyReport call in flight
  reportAtStart,  \* history, per slot: the dailyReport that the onFileChange
                  \* of the request in flight replaced by null (line 56),
                  \* kept while the meal list is the one of that moment
  now,            \* Date.now()
  rev,            \* the revision of geminiService.ts that is loaded
  apiKey,         \* process.env.API_KEY
  gwPending,      \* the gateway call awaiting generateContent
  gwLast,         \* the gateway call settled last, with its outcome
  messages,       \* ChatInterface: useState<ChatMessage[]>  (line 38)
  input,          \* ChatInterface: useState('')             (line 46)
  isSending,      \* ChatInterface: useState(false)          (line 47)
  chatPending     \* the sendChatMessage call awaited by handleSend

gatewayVars == <<rev, apiKey, gwPending, gwLast>>

chatVars == <<messages, input, isSending, chatPending>>

analyzerVars == <<meals, loadingSlot, error, dailyReport, reportLoading,
                  activeSlotRef, picking, reading, analyzing, reportReq,
                  reportAtStart>>

vars == <<meals, loadingSlot, error, dailyReport, reportLoading,
          activeSlotRef, picking, reading, analyzing, reportReq,
          reportAtStart, now,
          rev, apiKey, gwPending, gwLast,
          messages, input, isSending, chatPending>>

\* requests of slot s whose continuation (lines 61-83) has not finished
InFlight(s) == reading[s] + analyzing[s]

TotalInFlight ==
  InFlight("MORNING") + InFlight("NOON") + InFlight("EVENING")

\* meals.filter(m => m.type === type)  (line 113)
slotMeals(type) == SelectSeq(meals, LAMBDA m : m.type = type)

\* const isLoading = loadingSlot === type  (line 115)
isLoading(type) == loadingSlot = type

\* the plus button of a slot: disabled={!!loadingSlot}  (lines 131-138)
PlusEnabled(type) == loadingSlot = NULL

\* the empty-slot placeholder is rendered, with its onClick (lines 143-150)
PlaceholderShown(type) == Len(slotMeals(type)) = 0 /\ ~isLoading(type)

\* the report button is rendered (line 268)
ReportButtonShown ==
  Len(meals) > 0 /\ dailyReport = NullObject /\ ~reportLoading

\* literal at part_000:42, the greeting shown when the chat is mounted
WelcomeText == <<"NiHao-WoShiNiDeSiRenYingYangGuWen">>

\* the initial transcript (part_000:38-45)
WelcomeMessage ==
  [id |-> "welcome", role |-> "model", text |-> WelcomeText, timestamp |-> 0]

\* no gateway call was made yet; the latest revision is loaded with a key
GatewayIdle ==
  /\ rev = LatestRevision
  /\ apiKey = "k1"
  /\ gwPending = NullObject
  /\ gwLast = NullObject

\* ChatInterface as mounted (part_000:38-47)
ChatMounted ==
  /\ messages = <<WelcomeMessage>>
  /\ input = <<>>
  /\ isSending = FALSE
  /\ chatPending = NullObject

\* Analyzer as mounted (Analyzer.tsx:30-41)
AnalyzerMounted ==
  /\ meals = <<>>
  /\ loadingSlot = NULL
  /\ error = NULL
  /\ dailyReport = NullObject
  /\ reportLoading = FALSE
  /\ activeSlotRef = NULL
  /\ picking = FALSE
  /\ reading = [s \in MealType |-> 0]
  /\ analyzing = [s \in MealType |-> 0]
  /\ reportReq = NullObject
  /\ reportAtStart = [s \in MealType |-> NullObject]

Init ==
  /\ AnalyzerMounted
  /\ now = 0
  /\ GatewayIdle
  /\ ChatMounted

(* ---------------------------------------------------------------------- *)
(* Handlers and continuations                                              *)
(* ---------------------------------------------------------------------- *)

\* handleFileSelect(slot) (lines 43-46), reached from the plus button or
\* from the placeholder of the slot.  The file dialog it opens is modal:
\* no other control can be clicked until it closes.
handleFileSelect(slot) ==
  /\ ~picking
  /\ PlusEnabled(slot) \/ PlaceholderShown(slot)
  /\ Len(meals) + TotalInFlight < MaxMeals
  /\ activeSlotRef' = slot
  /\ picking' = TRUE
  /\ UNCHANGED <<gatewayVars, chatVars, reportAtStart>>
  /\ UNCHANGED <<meals, loadingSlot, error, dailyReport, reportLoading,
                 reading, analyzing, reportReq, now>>

\* the dialog is dismissed without a selection: no change event
cancelFileDialog ==
  /\ picking
  /\ picking' = FALSE
  /\ UNCHANGED <<gatewayVars, chatVars, reportAtStart>>
  /\ UNCHANGED <<meals, loadingSlot, error, dailyReport, reportLoading,
                 activeSlotRef, reading, analyzing, reportReq, now>>

\* onFileChange (lines 48-89) up to reader.readAsDataURL(file).
\* readAsDataURL of a File on a fresh FileReader does not throw, so the
\* outer catch (lines 85-88) is not taken.
onFileChange ==
  /\ picking
  /\ activeSlotRef # NULL
  /\ picking' = FALSE
  /\ loadingSlot' = activeSlotRef
  /\ error' = NULL
  /\ dailyReport' = NullObject
  /\ reading' = [reading EXCEPT ![activeSlotRef] = @ + 1]
  /\ reportAtStart' = [reportAtStart EXCEPT ![activeSlotRef] = dailyReport]
  /\ UNCHANGED <<gatewayVars, chatVars>>
  /\ UNCHANGED <<meals, reportLoading, activeSlotRef, analyzing,
                 reportReq, now>>

\* reader.onloadend with a result (lines 61-67): the continuation runs up to
\* the await of analyzeFoodImage(base64Data)
onloadendOk(slot) ==
  /\ reading[slot] > 0
  /\ reading' = [reading EXCEPT ![slot] = @ - 1]
  /\ analyzing' = [analyzing EXCEPT ![slot] = @ + 1]
  /\ UNCHANGED <<gatewayVars, chatVars, reportAtStart>>
  /\ UNCHANGED <<meals, loadingSlot, error, dailyReport, reportLoading,
                 activeSlotRef, picking, reportReq, now>>

\* reader.onloadend after a failed read: reader.result is null and
\* base64String.split (line 64) throws outside the inner try, so neither
\* catch nor finally (lines 76-82) runs
onloadendNull(slot) ==
  /\ reading[slot] > 0
  /\ reading' = [reading EXCEPT ![slot] = @ - 1]
  /\ reportAtStart' = [reportAtStart EXCEPT ![slot] = NullObject]
  /\ UNCHANGED <<gatewayVars, chatVars>>
  /\ UNCHANGED <<meals, loadingSlot, error, dailyReport, reportLoading,
                 activeSlotRef, picking, analyzing, reportReq, now>>

newMealFromRef(result, slot) ==
  [calories |-> result.calories, protein |-> result.protein,
   carbs |-> result.carbs, fat |-> result.fat,
   foodItems |-> result.foodItems, healthScore |-> result.healthScore,
   summary |-> result.summary,
   id |-> now, type |-> activeSlotRef, image |-> DataUrl, timestamp |-> now]

\* the Meal built at lines 68-74
newMeal(result, slot) ==
  [calories |-> result.calories, protein |-> result.protein,
   carbs |-> result.carbs, fat |-> result.fat,
   foodItems |-> result.foodItems, healthScore |-> result.healthScore,
   summary |-> result.summary,
   id |-> now, type |-> slot, image |-> DataUrl, timestamp |-> now]

\* analyzeFoodImage resolves (lines 67-75, 79-82)
analyzeResolved(slot, result) ==
  /\ analyzing[slot] > 0
  /\ analyzing' = [analyzing EXCEPT ![slot] = @ - 1]
  /\ meals' = Append(meals, newMeal(result, slot))
  /\ loadingSlot' = NULL
  /\ reportAtStart' = [s \in MealType |-> NullObject]
  /\ UNCHANGED <<gatewayVars, chatVars>>
  /\ UNCHANGED <<error, dailyReport, reportLoading, activeSlotRef, picking,
                 reading, reportReq, now>>

analyzeRejectedDropsLast(slot) ==
  /\ analyzing[slot] > 0
  /\ analyzing' = [analyzing EXCEPT ![slot] = @ - 1]
  /\ meals' = IF meals = <<>> THEN meals ELSE SubSeq(meals, 1, Len(meals) - 1)
  /\ error' = AnalysisFailedMsg
  /\ loadingSlot' = NULL
  /\ reportAtStart' = [reportAtStart EXCEPT ![slot] = NullObject]
  /\ UNCHANGED <<gatewayVars, chatVars>>
  /\ UNCHANGED <<dailyReport, reportLoading, activeSlotRef, picking,
                 reading, reportReq, now>>

\* analyzeFoodImage rejects (lines 76-82)
analyzeRejected(slot) ==
  /\ analyzing[slot] > 0
  /\ analyzing' = [analyzing EXCEPT ![slot] = @ - 1]
  /\ error' = AnalysisFailedMsg
  /\ loadingSlot' = NULL
  /\ reportAtStart' = [reportAtStart EXCEPT ![slot] = NullObject]
  /\ UNCHANGED <<gatewayVars, chatVars>>
  /\ UNCHANGED <<meals, dailyReport, reportLoading, activeSlotRef, picking,
                 reading, reportReq, now>>

\* prev.filter(m => m.id !== id)  (line 92)
filterOutId(list, id) == SelectSeq(list, LAMBDA m : m.id # id)

\* deleteMeal(id) (lines 91-94), reached from the delete button of a meal
\* that is rendered (lines 167-173)
deleteMeal(id) ==
  /\ ~picking
  /\ \E i \in 1..Len(meals) : meals[i].id = id
  /\ meals' = filterOutId(meals, id)
  /\ dailyReport' = NullObject
  /\ reportAtStart' = [s \in MealType |-> NullObject]
  /\ UNCHANGED <<gatewayVars, chatVars>>
  /\ UNCHANGED <<loadingSlot, error, reportLoading, activeSlotRef, picking,
                 reading, analyzing, reportReq, now>>

handleGenerateReportStale ==
  /\ ~picking
  /\ ReportButtonShown
  /\ reportLoading' = TRUE
  /\ reportReq' = calculateTotals(<<>>)
  /\ UNCHANGED <<gatewayVars, chatVars, reportAtStart>>
  /\ UNCHANGED <<meals, loadingSlot, error, dailyReport, activeSlotRef,
                 picking, reading, analyzing, now>>

\* handleGenerateReport (lines 96-101) up to the await of
\* generateDailyReport(totals), reached from the report button
handleGenerateReport ==
  /\ ~picking
  /\ ReportButtonShown
  /\ Len(meals) # 0
  /\ reportLoading' = TRUE
  /\ reportReq' = calculateTotals(meals)
  /\ UNCHANGED <<gatewayVars, chatVars, reportAtStart>>
  /\ UNCHANGED <<meals, loadingSlot, error, dailyReport, activeSlotRef,
                 picking, reading, analyzing, now>>

\* generateDailyReport resolves (lines 102, 105-107)
reportResolved(report) ==
  /\ reportReq # NullObject
  /\ dailyReport' = report
  /\ reportLoading' = FALSE
  /\ reportReq' = NullObject
  /\ UNCHANGED <<gatewayVars, chatVars, reportAtStart>>
  /\ UNCHANGED <<meals, loadingSlot, error, activeSlotRef, picking,
                 reading, analyzing, now>>

reportRejectedKeepsLoading ==
  /\ reportReq # NullObject
  /\ error' = ReportFailedMsg
  /\ reportReq' = NullObject
  /\ UNCHANGED <<gatewayVars, chatVars, reportAtStart>>
  /\ UNCHANGED <<meals, loadingSlot, dailyReport, reportLoading,
                 activeSlotRef, picking, reading, analyzing, now>>

\* generateDailyReport rejects (lines 103-107)
reportRejected ==
  /\ reportReq # NullObject
  /\ error' = ReportFailedMsg
  /\ reportLoading' = FALSE
  /\ reportReq' = NullObject
  /\ UNCHANGED <<gatewayVars, chatVars, reportAtStart>>
  /\ UNCHANGED <<meals, loadingSlot, dailyReport, activeSlotRef, picking,
                 reading, analyzing, now>>

\* the clock advances
Tick ==
  /\ now < MaxClock
  /\ now' = now + 1
  /\ UNCHANGED <<gatewayVars, chatVars, reportAtStart>>
  /\ UNCHANGED <<meals, loadingSlot, error, dailyReport, reportLoading,
                 activeSlotRef, picking, reading, analyzing, reportReq>>

Next ==
  \/ \E slot \in MealType : handleFileSelect(slot)
  \/ cancelFileDialog
  \/ onFileChange
  \/ \E slot \in MealType : onloadendOk(slot)
  \/ \E slot \in MealType : onloadendNull(slot)
  \/ \E slot \in MealType : \E result \in AnalysisResults :
        analyzeResolved(slot, result)
  \/ \E slot \in MealType : analyzeRejected(slot)
  \/ \E id \in 0..MaxClock : deleteMeal(id)
  \/ handleGenerateReport
  \/ \E report \in ReportResults : reportResolved(report)
  \/ reportRejected
  \/ Tick

Spec == Init /\ [][Next]_vars

(* ---------------------------------------------------------------------- *)
(* Auxiliary definitions for the properties                                *)
(* ---------------------------------------------------------------------- *)

RECURSIVE SeqSum(_)
SeqSum(s) == IF s = <<>> THEN 0 ELSE Head(s) + SeqSum(Tail(s))

Calories(list) == [i \in 1..Len(list) |-> list[i].calories]
Protein(list) == [i \in 1..Len(list) |-> list[i].protein]
Carbs(list) == [i \in 1..Len(list) |-> list[i].carbs]
Fat(list) == [i \in 1..Len(list) |-> list[i].fat]
HealthScores(list) == [i \in 1..Len(list) |-> list[i].healthScore]

\* every re-ordering of a list
Reorderings(list) ==
  { [i \in 1..Len(list) |-> list[p[i]]] : p \in Permutations(1..Len(list)) }

\* the list without its i-th element
RemoveAt(list, i) ==
  [j \in 1..(Len(list) - 1) |-> IF j < i THEN list[j] ELSE list[j + 1]]

\* the set of names in a sequence of names
Names(items) == { items[i] : i \in 1..Len(items) }

totals == calculateTotals(meals)

(* ---------------------------------------------------------------------- *)
(* Properties                                                              *)
(* ---------------------------------------------------------------------- *)

\* C1: for a non-empty meal list the healthScore of the totals is the
\* arithmetic mean of the meals' healthScore values, rounded to the nearest
\* integer.
C1_HealthScoreIsRoundedMean ==
  Len(meals) > 0 =>
    totals.healthScore = MathRound(SeqSum(HealthScores(meals)), Len(meals))

\* C2: every step that changes the meal list leaves dailyReport null.
C2_MealChangeClearsReport ==
  [][meals' # meals => dailyReport' = NullObject]_vars

\* C3: for every slot at most one image-analysis request is in flight.
C3_OneRequestPerSlot ==
  \A s \in MealType : InFlight(s) <= 1

\* C4: no two meals of the meal list have the same id.
C4_UniqueIds ==
  \A i, j \in 1..Len(meals) : i # j => meals[i].id # meals[j].id

\* C5: deleteMeal(id) for the id of a listed meal removes exactly one meal
\* and keeps the others in their order.
C5_DeleteRemovesExactlyOne ==
  [][\A id \in 0..MaxClock :
       deleteMeal(id) =>
         /\ Len(meals') = Len(meals) - 1
         /\ \E i \in 1..Len(meals) : meals' = RemoveAt(meals, i)]_vars

\* C6: the totals after deleteMeal(m.id) are the totals of the same
\* additions with m left out.
C6_DeleteThenTotals ==
  [][\A i \in 1..Len(meals) :
       deleteMeal(meals[i].id) =>
         calculateTotals(meals') = calculateTotals(RemoveAt(meals, i))]_vars

\* C7: the healthScore of the totals is the same for every re-ordering of
\* the meal list.
C7_HealthScoreOrderInvariant ==
  \A list \in Reorderings(meals) :
    calculateTotals(list).healthScore = totals.healthScore

\* C8: calories, protein, carbs and fat of the totals are the exact sums
\* over the meals, are never negative, and are the same for every
\* re-ordering of the meal list.
C8_NutrientSums ==
  /\ totals.calories = SeqSum(Calories(meals))
  /\ totals.protein = SeqSum(Protein(meals))
  /\ totals.carbs = SeqSum(Carbs(meals))
  /\ totals.fat = SeqSum(Fat(meals))
  /\ totals.calories >= 0 /\ totals.protein >= 0
  /\ totals.carbs >= 0 /\ totals.fat >= 0
  /\ \A list \in Reorderings(meals) :
       /\ calculateTotals(list).calories = totals.calories
       /\ calculateTotals(list).protein = totals.protein
       /\ calculateTotals(list).carbs = totals.carbs
       /\ calculateTotals(list).fat = totals.fat

\* two different meals have been added and totalled
C8_Witness ==
  /\ Len(meals) = 2
  /\ meals[1].calories # meals[2].calories
  /\ totals.calories = 1200 /\ totals.protein = 50
  /\ totals.carbs = 140 /\ totals.fat = 40

\* C9: the totals of the empty list are all zero with no food items and the
\* placeholder summary; the summary is the placeholder for every list.
C9_EmptyTotals ==
  /\ totals.summary = SummaryPlaceholder
  /\ meals = <<>> =>
       totals = [calories |-> 0, protein |-> 0, carbs |-> 0, fat |-> 0,
                 foodItems |-> <<>>, healthScore |-> 0,
                 summary |-> SummaryPlaceholder]

\* C10: foodItems of the totals is the set union of the meals' foodItems:
\* every name of some meal, nothing else, no name twice.
C10_FoodItemsSetUnion ==
  LET items == totals.foodItems
  IN /\ Names(items) = UNION { Names(meals[i].foodItems) : i \in 1..Len(meals) }
     /\ \A i, j \in 1..Len(items) : i # j => items[i] # items[j]

(* ---------------------------------------------------------------------- *)
(* calculateTotals on its own: every meal list up to MaxList whose         *)
(* healthScore values are taken from the ends and the middle of [0,100]    *)
(* ---------------------------------------------------------------------- *)

\* healthScore values an analysis can answer with (types.ts:7, "0-100")
ScoreSamples == {0, 1, 50, 100}

\* the i-th meal of a list, recorded at clock reading i with healthScore h
SampleMeal(h, i) ==
  [calories |-> 100 + h, protein |-> 10, carbs |-> 20, fat |-> 5,
   foodItems |-> <<"rice">>, healthScore |-> h, summary |-> "ok",
   id |-> i, type |-> "MORNING", image |-> DataUrl, timestamp |-> i]

SampleLists ==
  UNION { { [i \in 1..n |-> SampleMeal(f[i], i)] : f \in [1..n -> ScoreSamples] }
          : n \in 0..MaxList }

TotalsInit ==
  /\ meals \in SampleLists
  /\ loadingSlot = NULL
  /\ error = NULL
  /\ dailyReport = NullObject
  /\ reportLoading = FALSE
  /\ activeSlotRef = NULL
  /\ picking = FALSE
  /\ reading = [s \in MealType |-> 0]
  /\ analyzing = [s \in MealType |-> 0]
  /\ reportReq = NullObject
  /\ reportAtStart = [s \in MealType |-> NullObject]
  /\ now = Len(meals)
  /\ GatewayIdle
  /\ ChatMounted

TotalsNext ==
  \/ handleGenerateReport
  \/ \E report \in ReportResults : reportResolved(report)
  \/ reportRejected

SpecTotals == TotalsInit /\ [][TotalsNext]_vars

\* C11: for every meal list (the empty one included) whose healthScore
\* values are integers in [0,100], the healthScore of the totals is an
\* integer in [0,100].
C11_HealthScoreInRange ==
  totals.healthScore \in 0..100

\* totals of at least two meals, all with healthScore 100, were computed
\* for a report request
C11_Witness ==
  /\ Len(meals) >= 2
  /\ \A i \in 1..Len(meals) : meals[i].healthScore = 100
  /\ reportReq = totals
  /\ totals.healthScore > 0

\* C12: when an image analysis fails, the meal list is the same after the
\* failure is handled as before, and error is a non-null string.
C12_AnalysisFailureKeepsMeals ==
  [][\A slot \in MealType :
       analyzeRejected(slot) => meals' = meals /\ error' # NULL]_vars

\* a failed analysis has been handled while the meal list was not empty
C12_Witness ==
  /\ error = AnalysisFailedMsg
  /\ Len(meals) > 0
  /\ loadingSlot = NULL

\* C13: when a report request fails, dailyReport and the meal list keep
\* their values, error is a non-null string and reportLoading is false.
C13_ReportFailureKeepsState ==
  [][reportRejected =>
       /\ dailyReport' = dailyReport
       /\ meals' = meals
       /\ error' # NULL
       /\ reportLoading' = FALSE]_vars

\* a failed report request has been handled
C13_Witness ==
  /\ error = ReportFailedMsg
  /\ ~reportLoading
  /\ reportReq = NullObject
  /\ Len(meals) > 0

\* C20: whenever a request is in flight for a slot s and none for another
\* slot t, some trigger of t (its plus button or its placeholder) is
\* enabled, whether or not t holds meals.
C20_SlotsIndependent ==
  \A s, t \in MealType :
    (s # t /\ InFlight(s) > 0 /\ InFlight(t) = 0) =>
      (PlusEnabled(t) \/ PlaceholderShown(t))

(* ---------------------------------------------------------------------- *)
(* The gateway operations as calls: SpecGateway                            *)
(* ---------------------------------------------------------------------- *)

\* the environment (or the key selection flow) sets API_KEY
selectApiKey(key) ==
  /\ key # apiKey
  /\ apiKey' = key
  /\ UNCHANGED <<rev, gwPending, gwLast>>
  /\ UNCHANGED <<analyzerVars, now, chatVars>>

\* the record of a settled call
Settled(op, key, called, reply) ==
  [op |-> op, key |-> key, called |-> called, reply |-> reply,
   outcome |-> Settle(rev, op, reply)]

\* an operation is called and runs up to its await of generateContent; when
\* getAi throws, the catch block of the operation settles the call at once
gatewayCall(op) ==
  /\ gwPending = NullObject
  /\ IF GetAiThrows(rev, apiKey)
       THEN /\ gwLast' = Settled(op, apiKey, FALSE, GetAiError)
            /\ UNCHANGED gwPending
       ELSE /\ gwPending' = [op |-> op, key |-> apiKey]
            /\ UNCHANGED gwLast
  /\ UNCHANGED <<rev, apiKey>>
  /\ UNCHANGED <<analyzerVars, now, chatVars>>

\* generateContent settles and the operation runs to its end
serviceReplies(reply) ==
  /\ gwPending # NullObject
  /\ gwLast' = Settled(gwPending.op, gwPending.key, TRUE, reply)
  /\ gwPending' = NullObject
  /\ UNCHANGED <<rev, apiKey>>
  /\ UNCHANGED <<analyzerVars, now, chatVars>>

GatewayInit ==
  /\ AnalyzerMounted
  /\ now = 0
  /\ rev \in Revisions
  /\ apiKey \in ApiKeys
  /\ gwPending = NullObject
  /\ gwLast = NullObject
  /\ ChatMounted

GatewayNext ==
  \/ \E key \in ApiKeys : selectApiKey(key)
  \/ \E op \in Operations : gatewayCall(op)
  \/ \E reply \in ServiceReplies : serviceReplies(reply)

SpecGateway == GatewayInit /\ [][GatewayNext]_vars

\* the call settled last was operation op
LastWas(op) == gwLast # NullObject /\ gwLast.op = op

\* the service answered the last call with an empty or unparsable text
LastTextUnusable ==
  /\ gwLast.called
  /\ gwLast.reply.kind = "response"
  /\ Falsy(gwLast.reply.text) \/ ~IsJson(gwLast.reply.text)

\* C14: in every revision, analyzeFoodImage and generateDailyReport throw
\* when the service answers with an empty or unparsable text.
C14_UnusableTextThrows ==
  (/\ LastWas("analyzeFoodImage") \/ LastWas("generateDailyReport")
   /\ LastTextUnusable)
    => gwLast.outcome.kind = "threw"

RequiredFields ==
  {"calories", "protein", "carbs", "fat", "foodItems", "healthScore",
   "summary"}

\* C15: when the service answers an image analysis with parsable JSON
\* that lacks a required field, analyzeFoodImage (latest revision) throws,
\* so that no Meal is built from the answer.
C15_MissingFieldThrows ==
  (/\ LastWas("analyzeFoodImage")
   /\ rev = LatestRevision
   /\ gwLast.called
   /\ gwLast.reply.kind = "response"
   /\ ~Falsy(gwLast.reply.text)
   /\ IsJson(gwLast.reply.text)
   /\ ~(RequiredFields \subseteq DOMAIN JSONparse(gwLast.reply.text)))
    => gwLast.outcome.kind = "threw"

\* C16: in the latest revision analyzeFoodImage called without a usable
\* API_KEY throws the credential-missing error and makes no network call.
C16_AnalyzeMissingKey ==
  (/\ LastWas("analyzeFoodImage")
   /\ rev = LatestRevision
   /\ KeyMissing(gwLast.key))
    => /\ ~gwLast.called
       /\ gwLast.outcome = Threw(MissingKeyMsg)
       /\ gwLast.outcome.value \notin
            {InvalidKeyMsg, ModelFailedMsg, AnalysisErrorMsg}

\* analyzeFoodImage of the latest revision was called with a blank key
C16_Witness ==
  /\ LastWas("analyzeFoodImage")
  /\ rev = LatestRevision
  /\ gwLast.key = " "
  /\ gwLast.outcome.kind = "threw"

\* C17: in the latest revision each of the three operations called without
\* a usable API_KEY makes no network call and throws the credential-missing
\* error.
C17_AllOperationsMissingKey ==
  (/\ gwLast # NullObject
   /\ rev = LatestRevision
   /\ KeyMissing(gwLast.key))
    => /\ ~gwLast.called
       /\ gwLast.outcome.kind = "threw"
       /\ Includes(gwLast.outcome.value, <<"API", "Key", "is", "missing">>)

(* ---------------------------------------------------------------------- *)
(* ChatInterface (src/unnamed/part_000, lines 31-193): SpecChat            *)
(* ---------------------------------------------------------------------- *)

\* what the user can type: nothing, a blank, a question
Inputs == {<<>>, <<" ">>, <<"hi">>}

\* input.trim()
TrimText(text) == IF text = <<" ">> THEN <<>> ELSE text

\* literal at part_000:95 ("sorry, I am busy, try again later")
ChatBusyMsg == <<"BaoQian-WoXianZaiYouDianMang">>

\* the ChatMessage built at lines 61-66
userMsg == [id |-> ToString(now), role |-> "user", text |-> input,
            timestamp |-> now]

\* the ChatMessage built at lines 82-87
botMsg(responseText) ==
  [id |-> ToString(now + 1), role |-> "model", text |-> responseText,
   timestamp |-> now]

\* the ChatMessage built at lines 92-97
errorMsg ==
  [id |-> ToString(now + 1), role |-> "model", text |-> ChatBusyMsg,
   timestamp |-> now]

\* onChange of the text field (line 175)
setInput(text) ==
  /\ text # input
  /\ input' = text
  /\ UNCHANGED <<messages, isSending, chatPending>>
  /\ UNCHANGED <<analyzerVars, now, gatewayVars>>

handleSendNoBusyGuard ==
  IF TrimText(input) = <<>>
    THEN UNCHANGED vars
    ELSE /\ Len(messages) < MaxTranscript
         /\ messages' = Append(messages, userMsg)
         /\ input' = <<>>
         /\ isSending' = TRUE
         /\ chatPending' = [history |-> messages, message |-> input,
                            key |-> apiKey,
                            called |-> ~GetAiThrows(rev, apiKey)]
         /\ UNCHANGED <<analyzerVars, now, gatewayVars>>

\* handleSend (lines 58-80), from the send button or the Enter key, up to
\* the await of sendChatMessage(history, userMsg.text); history is built
\* from the messages of the render the handler belongs to
handleSend ==
  IF TrimText(input) = <<>> \/ isSending
    THEN UNCHANGED vars
    ELSE /\ Len(messages) < MaxTranscript
         /\ messages' = Append(messages, userMsg)
         /\ input' = <<>>
         /\ isSending' = TRUE
         /\ chatPending' = [history |-> messages, message |-> input,
                            key |-> apiKey,
                            called |-> ~GetAiThrows(rev, apiKey)]
         /\ UNCHANGED <<analyzerVars, now, gatewayVars>>

\* the replies a pending chat call can settle with
ChatReplies == ServiceReplies \cup {GetAiError}

chatSettlesRollsBack(reply) ==
  /\ chatPending # NullObject
  /\ IF chatPending.called THEN reply \in ServiceReplies
                           ELSE reply = GetAiError
  /\ LET out == sendChatMessage(rev, reply)
     IN messages' =
          IF reply.kind = "error"
            THEN Append(chatPending.history, errorMsg)
            ELSE Append(messages, botMsg(out.value))
  /\ isSending' = FALSE
  /\ chatPending' = NullObject
  /\ gwLast' = Settled("sendChatMessage", chatPending.key,
                       chatPending.called, reply)
  /\ UNCHANGED <<rev, apiKey, gwPending, input>>
  /\ UNCHANGED <<analyzerVars, now>>

\* sendChatMessage settles and handleSend runs to its end (lines 80-101)
chatSettles(reply) ==
  /\ chatPending # NullObject
  /\ IF chatPending.called THEN reply \in ServiceReplies
                           ELSE reply = GetAiError
  /\ LET out == sendChatMessage(rev, reply)
     IN messages' =
          IF out.kind = "returned"
            THEN Append(messages, botMsg(out.value))
            ELSE Append(messages, errorMsg)
  /\ isSending' = FALSE
  /\ chatPending' = NullObject
  /\ gwLast' = Settled("sendChatMessage", chatPending.key,
                       chatPending.called, reply)
  /\ UNCHANGED <<rev, apiKey, gwPending, input>>
  /\ UNCHANGED <<analyzerVars, now>>

ChatNext ==
  \/ \E text \in Inputs : setInput(text)
  \/ handleSend
  \/ \E reply \in ChatReplies : chatSettles(reply)
  \/ \E key \in ApiKeys : selectApiKey(key)
  \/ Tick

SpecChat == Init /\ [][ChatNext]_vars

\* the last message of a transcript
Last(list) == list[Len(list)]

\* the step in which a chat call that the service answered with an empty
\* text is completed
ChatSettledEmpty ==
  /\ chatPending # NullObject
  /\ chatPending' = NullObject
  /\ gwLast'.reply.kind = "response"
  /\ Falsy(gwLast'.reply.text)

\* C18: when the service answers a chat request with an empty text,
\* sendChatMessage returns the fixed non-empty fallback without throwing,
\* handleSend appends exactly one model message with that text after the
\* user's message, no error is raised and isSending is false again.
C18_EmptyChatReplyFallsBack ==
  [][ChatSettledEmpty =>
       /\ gwLast'.outcome = Returned(ChatFallback)
       /\ ChatFallback # <<>>
       /\ messages' = Append(messages, Last(messages'))
       /\ Last(messages).role = "user"
       /\ Last(messages').role = "model"
       /\ Last(messages').text = ChatFallback
       /\ error' = error
       /\ ~isSending']_vars

\* an empty answer was replaced by the fallback in the transcript
C18_Witness ==
  /\ LastWas("sendChatMessage")
  /\ gwLast.called
  /\ gwLast.reply.kind = "response"
  /\ gwLast.reply.text = ""
  /\ Last(messages).text = ChatFallback
  /\ ~isSending

\* list is a prefix of longer
IsPrefix(list, longer) ==
  /\ Len(list) <= Len(longer)
  /\ SubSeq(longer, 1, Len(list)) = list

\* C19: the transcript only grows at its end, and while a chat call is
\* pending the user's message of that call is in the transcript, right
\* after the history the call was given.
C19_TranscriptAppendOnly ==
  [][/\ IsPrefix(messages, messages')
     /\ chatPending' # NullObject =>
          /\ Len(messages') > Len(chatPending'.history)
          /\ messages'[Len(chatPending'.history) + 1].role = "user"
          /\ messages'[Len(chatPending'.history) + 1].text
               = chatPending'.message]_vars

\* a chat call failed and the user's message is still in its place
C19_Witness ==
  /\ LastWas("sendChatMessage")
  /\ gwLast.reply.kind = "error"
  /\ ~isSending
  /\ Len(messages) >= 3
  /\ messages[2].role = "user"
  /\ messages[2].text = <<"hi">>

(* ---------------------------------------------------------------------- *)
(* Further properties of the Analyzer                                      *)
(* ---------------------------------------------------------------------- *)

\* C21: a report is stored as dailyReport only when the totals of its
\* request are the totals of the current meal list, and the meal list does
\* not change while a report stays stored; so whenever dailyReport is
\* non-null it answers a request computed from the current meal list.
C21_ReportMatchesMeals ==
  [][/\ \A report \in ReportResults :
          reportResolved(report) => reportReq = calculateTotals(meals)
     /\ (dailyReport # NullObject /\ dailyReport' # NullObject)
          => meals' = meals]_vars

\* C23: if an image-analysis request is in flight then loadingSlot is a
\* slot that has a request in flight.
C23_LoadingTracksPending ==
  TotalInFlight > 0 => (loadingSlot # NULL /\ InFlight(loadingSlot) > 0)

(* ---------------------------------------------------------------------- *)
(* The Analyzer under the assumption that every file read and every        *)
(* gateway call that was started completes: SpecLive.  The user's actions  *)
(* (selecting, cancelling, deleting, asking for a report) carry no         *)
(* fairness: the user may stop at any time.                                *)
(* ---------------------------------------------------------------------- *)

\* a FileReader read that was started ends, with a result or without
readEnds == \E slot \in MealType : onloadendOk(slot) \/ onloadendNull(slot)

\* an analyzeFoodImage call that was issued settles
analyzeSettles ==
  \E slot \in MealType :
    \/ \E result \in AnalysisResults : analyzeResolved(slot, result)
    \/ analyzeRejected(slot)

\* a generateDailyReport call that was issued settles
reportSettles ==
  \/ \E report \in ReportResults : reportResolved(report)
  \/ reportRejected

SpecLive ==
  /\ Init
  /\ [][Next]_vars
  /\ WF_vars(readEnds)
  /\ WF_vars(analyzeSettles)
  /\ WF_vars(reportSettles)

\* C25: every Meal that is appended goes to the end of the meal list and has
\* the type of the slot of the request that produced it, which is the slot
\* of the trigger that opened the file dialog of that request; this holds
\* when another trigger changed activeSlotRef while the request was pending
\* and in whatever order the pending requests complete.
C25_MealTypeIsRequestSlot ==
  [][/\ (\E slot \in MealType : reading'[slot] > reading[slot])
          => /\ picking
             /\ reading' = [reading EXCEPT ![activeSlotRef] = @ + 1]
     /\ picking => activeSlotRef' = activeSlotRef
     /\ Len(meals') > Len(meals)
          => /\ meals' = Append(meals, Last(meals'))
             /\ \E slot \in MealType :
                  /\ Last(meals').type = slot
                  /\ analyzing[slot] > 0
                  /\ analyzing' = [analyzing EXCEPT ![slot] = @ - 1]]_vars

\* MORNING's meal was appended while NOON's request, started later through
\* NOON's trigger, is still pending
C25_Witness ==
  /\ Len(meals) = 1
  /\ meals[1].type = "MORNING"
  /\ activeSlotRef = "NOON"
  /\ InFlight("NOON") > 0
  /\ loadingSlot = NULL
  /\ error = NULL

\* C27: a generateDailyReport call is issued only while the meal list is
\* not empty, and the totals it is given are calculateTotals of the meal
\* list at that moment; with an empty meal list handleGenerateReport takes
\* no step: it issues no call and changes neither reportLoading,
\* dailyReport nor error.
C27_ReportNeedsMeals ==
  [][/\ (reportReq' # reportReq /\ reportReq' # NullObject)
          => /\ Len(meals) > 0
             /\ reportReq = NullObject
             /\ reportReq' = calculateTotals(meals)
             /\ reportLoading'
     /\ Len(meals) = 0 => ~ENABLED handleGenerateReport]_vars

\* a report request for two meals is in flight with the totals of both
C27_Witness ==
  /\ Len(meals) = 2
  /\ reportLoading
  /\ reportReq # NullObject
  /\ reportReq.calories = meals[1].calories + meals[2].calories
  /\ reportReq.foodItems = meals[1].foodItems \o meals[2].foodItems

\* C24: when dailyReport is non-null at the moment an image analysis is
\* started and that analysis fails while the meal list is still the same,
\* dailyReport is that report again after the failure is handled.
C24_FailureKeepsReport ==
  [][\A slot \in MealType :
       (/\ analyzeRejected(slot)
        /\ InFlight(slot) = 1
        /\ reportAtStart[slot] # NullObject)
         => dailyReport' = reportAtStart[slot]]_vars

\* C22: when every file read and every gateway call completes, a slot that
\* is Loading eventually leaves it: loadingSlot is eventually null again,
\* also when the file read ended with a null result.
C22_LoadingEventuallyEnds ==
  (loadingSlot # NULL) ~> (loadingSlot = NULL)

(* ---------------------------------------------------------------------- *)
(* Further properties of the chat                                          *)
(* ---------------------------------------------------------------------- *)

\* the roles of a transcript are model, user, model, ...
Alternates(list) ==
  \A i \in 1..Len(list) :
    list[i].role = IF i % 2 = 1 THEN "model" ELSE "user"

\* a step in which a sendChatMessage call is issued
ChatCallIssued == chatPending' # NullObject /\ chatPending' # chatPending

\* a step in which the pending sendChatMessage call is completed
ChatCallCompleted == chatPending # NullObject /\ chatPending' = NullObject

\* C26: the roles of the transcript strictly alternate, starting with the
\* welcome message of the model; a call is issued only for a non-blank
\* input while isSending is false and appends exactly one user turn; its
\* completion appends exactly one model turn; nothing else changes the
\* transcript, so a send with blank input or while isSending is true
\* changes nothing and issues no call.
C26_RolesAlternate ==
  [][/\ messages[1] = WelcomeMessage
     /\ Alternates(messages) /\ Alternates(messages')
     /\ isSending <=> chatPending # NullObject
     /\ ChatCallIssued
          => /\ TrimText(input) # <<>> /\ ~isSending
             /\ messages' = Append(messages, Last(messages'))
             /\ Last(messages').role = "user"
     /\ ChatCallCompleted
          => /\ messages' = Append(messages, Last(messages'))
             /\ Last(messages').role = "model"
     /\ messages' # messages => ChatCallIssued \/ ChatCallCompleted
     /\ (TrimText(input) = <<>> \/ isSending)
          => /\ ~ChatCallIssued
             /\ messages' # messages => ChatCallCompleted]_vars

\* two sends were completed, the second with an error text, and a blank
\* input is in the text field
C26_Witness ==
  /\ Len(messages) = 5
  /\ messages[2].role = "user" /\ messages[3].role = "model"
  /\ messages[4].role = "user" /\ messages[5].role = "model"
  /\ LastWas("sendChatMessage")
  /\ gwLast.reply.kind = "error"
  /\ input = <<" ">>
  /\ ~isSending

====
